---- MODULE Spec2Model ----
(***************************************************************************)
(* Model of the RAG chatbot: the checkpoint tracker, the loader, the       *)
(* chunker, the index builder, the trace recorder and the two entry points *)
(* (src/src/main.py with change detection, src/main.py without it).        *)
(* The source document, the checkpoint file and the persisted index are    *)
(* files shared by successive runs; the document is modified by the        *)
(* environment between any two steps of a run.                             *)
(***************************************************************************)
EXTENDS Integers, Sequences, FiniteSets, TLC

\* ------------------------------------------------------------------ bounds
MaxRuns == 2        \* runs of either entry point
MaxVersion == 2     \* distinct contents the document takes
MinMtime == 9       \* modification times, in tenths of a second
MaxMtime == 11
MaxQueries == 1     \* questions sent to the answer pipeline per run
ChunksPerDoc == 2   \* chunks the document splits into (pipeline model)
MaxTokens == 1000   \* longest first unit given to the chunker (chunker model)

\* ------------------------------------------------------- text and numbers
Digits == <<"0", "1", "2", "3", "4", "5", "6", "7", "8", "9">>

IsDigit(c) == \E i \in 1..10 : Digits[i] = c

DigitVal(c) == (CHOOSE i \in 1..10 : Digits[i] = c) - 1

IsSpace(c) == c \in {" ", "\t", "\n"}

RECURSIVE lstrip(_)
lstrip(s) == IF s # <<>> /\ IsSpace(Head(s)) THEN lstrip(Tail(s)) ELSE s

RECURSIVE rstrip(_)
rstrip(s) ==
  IF s # <<>> /\ IsSpace(s[Len(s)]) THEN rstrip(SubSeq(s, 1, Len(s) - 1)) ELSE s

\* str.strip(): leading and trailing whitespace removed
strip(s) == rstrip(lstrip(s))

LowerOf(c) ==
  CASE c = "E" -> "e" [] c = "X" -> "x" [] c = "I" -> "i" [] c = "T" -> "t"
    [] c = "Q" -> "q" [] OTHER -> c

\* str.lower()
lower(s) == [i \in 1..Len(s) |-> LowerOf(s[i])]

RECURSIVE IntStr(_)
IntStr(n) == IF n < 10 THEN <<Digits[n + 1]>> ELSE IntStr(n \div 10) \o <<Digits[(n % 10) + 1]>>

RECURSIVE IntVal(_)
IntVal(s) == IF s = <<>> THEN 0 ELSE 10 * IntVal(SubSeq(s, 1, Len(s) - 1)) + DigitVal(s[Len(s)])

AllDigits(s) == \A i \in 1..Len(s) : IsDigit(s[i])

\* A modification time is a float; the model keeps it in tenths of a second,
\* so 105 is the float 10.5.  str(float) prints the integer part, a point and
\* the fraction (at least one digit: str(10.0) is "10.0").
float_str_truncating(m) == IntStr(m \div 10)

float_str(m) == IntStr(m \div 10) \o <<".">> \o <<Digits[(m % 10) + 1]>>

PointAt(s) ==
  IF \E i \in 1..Len(s) : s[i] = "."
  THEN CHOOSE i \in 1..Len(s) : s[i] = "." /\ \A j \in 1..(i - 1) : s[j] # "."
  ELSE 0

\* float(text.strip()): digits, optionally a point and more digits; anything
\* else raises ValueError.  A fraction finer than a tenth parses to a float
\* that no modification time of the model equals (-1).
float_parse(text) ==
  LET s == strip(text)
      p == PointAt(s)
      ip == IF p = 0 THEN s ELSE SubSeq(s, 1, p - 1)
      fp == IF p = 0 THEN <<>> ELSE SubSeq(s, p + 1, Len(s))
  IN IF ~(AllDigits(ip) /\ AllDigits(fp)) \/ (ip = <<>> /\ fp = <<>>)
     THEN [ok |-> FALSE, val |-> 0]
     ELSE IF fp = <<>> THEN [ok |-> TRUE, val |-> 10 * IntVal(ip)]
     ELSE IF \A i \in 2..Len(fp) : fp[i] = "0"
          THEN [ok |-> TRUE, val |-> 10 * IntVal(ip) + DigitVal(fp[1])]
          ELSE [ok |-> TRUE, val |-> -1]

\* ---------------------------------------------------------------- outcomes
Return(v) == [kind |-> "return", val |-> v]
Raise(e) == [kind |-> "raise", val |-> e]

\* SystemExit and KeyboardInterrupt are not subclasses of Exception
IsException(e) == e \notin {"SystemExit", "KeyboardInterrupt"}

Garbage == <<"x">>

Inputs ==
  { <<"e", "x", "i", "t">>, <<"E", "X", "I", "T">>, <<"E", "x", "i", "t">>,
    <<" ", "e", "x", "i", "t", " ">>, <<>>, <<" ">>, <<"q">>, <<"e", "x", "i", "t", "s">> }

ExitWord == <<"e", "x", "i", "t">>


\* ------------------------------------------------------------------- state
VARIABLES
  doc,              \* the source document on disk: [exists, version, mtime]
  checkpoint,       \* the checkpoint file: [exists, text]
  ckptWritable,     \* whether the checkpoint file can be opened for writing
  index,            \* chunks held by the persisted index, in insertion order
  indexExists,      \* whether the persist directory exists
  prog,             \* entry point of the current run: "src" (src/src/main.py) or "root" (src/main.py)
  pc,               \* position of the current run
  runs,             \* runs started so far
  langfuse_client,  \* observability._langfuse_client is set
  changed,          \* result of has_pdf_changed in this run
  docs,             \* document version held by the loaded units (0: none)
  splits,           \* chunks produced by the chunker in this run
  query_count,      \* questions sent to the answer pipeline in this run
  stdin_line,       \* history: the line last read from standard input, as typed
  out,              \* the message last printed
  lastCall,         \* history: the last stage call, its own outcome and what its caller saw
  wrote,            \* history: the modification time update_pdf_checkpoint wrote in the latest src run (0: none)
  docSame,          \* history: the document is as it was at the latest has_pdf_changed
  ckptAtStart,      \* history: the checkpoint file when the current run started
  flushed,          \* history: "never" before flush_traces is called in the process, "last" when
                    \* nothing reached the client since its latest call, else "overtaken"
  stdin_eof,        \* standard input is exhausted: every further input() raises EOFError
  units,            \* chunker model: the document units given to split_documents
  chunks,           \* chunker model: the chunks split_documents returned
  split_pc          \* chunker model: "ready" before the call, "done" after it

vars == <<doc, checkpoint, ckptWritable, index, indexExists, prog, pc, runs,
          langfuse_client, changed, docs, splits, query_count, stdin_line,
          out, lastCall, wrote, docSame, ckptAtStart, flushed, stdin_eof, units,
          chunks, split_pc>>

splitterVars == <<units, chunks, split_pc>>

\* what no step of a run or of the environment changes
fixedVars == <<ckptWritable, splitterVars>>

fileVars == <<doc, checkpoint, fixedVars, index, indexExists>>

pipelineVars == <<doc, checkpoint, ckptWritable, index, indexExists, prog, pc, runs,
                  langfuse_client, changed, docs, splits, query_count, stdin_line,
                  out, lastCall, wrote, docSame, ckptAtStart, flushed,
                 stdin_eof>>

Terminal == {"idle", "exited", "failed", "crashed"}

NoCall == [op |-> "none", form |-> "plain", raw |-> Return("none"), seen |-> Return("none"), sinkDown |-> FALSE]

\* ------------------------------------------------------ checkpoint tracker
has_pdf_changed_trusting(d, c) ==
  IF ~c.exists THEN TRUE
  ELSE IF ~d.exists THEN TRUE
  ELSE LET last_mtime == float_parse(c.text)
       IN IF ~last_mtime.ok THEN FALSE
          ELSE d.mtime # last_mtime.val

has_pdf_changed_missing_unchanged(d, c) ==
  IF ~c.exists THEN TRUE
  ELSE IF ~d.exists THEN FALSE
  ELSE LET last_mtime == float_parse(c.text)
       IN IF ~last_mtime.ok THEN TRUE
          ELSE d.mtime # last_mtime.val

has_pdf_changed(d, c) ==
  IF ~c.exists THEN TRUE
  ELSE IF ~d.exists THEN TRUE
  ELSE LET last_mtime == float_parse(c.text)
       IN IF ~last_mtime.ok THEN TRUE
          ELSE d.mtime # last_mtime.val

\* the checkpoint file after update_pdf_checkpoint: getmtime raises when the
\* document is gone, open(.., 'w') raises when the file is not writable; both
\* are caught and logged
update_pdf_checkpoint(d, c, writable) ==
  IF ~d.exists THEN c
  ELSE IF ~writable THEN c
  ELSE [exists |-> TRUE, text |-> float_str(d.mtime)]

\* the statements inside the try of update_pdf_checkpoint, by what they raise
update_pdf_checkpoint_body(d, writable) ==
  IF ~d.exists THEN Raise("FileNotFoundError")
  ELSE IF ~writable THEN Raise("PermissionError")
  ELSE Return("None")

update_pdf_checkpoint_call_unguarded(d, writable) ==
  update_pdf_checkpoint_body(d, writable)

\* what the caller of update_pdf_checkpoint sees: `except Exception` logs the
\* error and the function returns None
update_pdf_checkpoint_call(d, writable) ==
  LET body == update_pdf_checkpoint_body(d, writable)
  IN IF body.kind = "raise" /\ IsException(body.val) THEN Return("None") ELSE body

\* ------------------------------------------------------------ trace recorder
send_trace_unguarded(client, sinkOk) ==
  IF ~client THEN "none" ELSE IF sinkOk THEN "sent" ELSE "raised"

\* `if _langfuse_client: try: _langfuse_client.trace(..) except Exception: log`
send_trace(client, sinkOk) ==
  IF ~client THEN "none" ELSE IF sinkOk THEN "sent" ELSE "swallowed"

Sent(s) == IF s = "sent" THEN 1 ELSE 0

\* wrapper of trace_function: raw is the outcome of the wrapped function,
\* ok1/ok2 whether the sink accepts the success/error record
trace_function(raw, client, ok1, ok2) ==
  LET s1 == IF raw.kind = "return" THEN send_trace(client, ok1) ELSE "none"
      tried == IF s1 = "raised" THEN Raise("TelemetryError") ELSE raw
      handled == tried.kind = "raise" /\ IsException(tried.val)
      s2 == IF handled THEN send_trace(client, ok2) ELSE "none"
  IN [seen |-> IF s2 = "raised" THEN Raise("TelemetryError") ELSE tried,
      sent |-> Sent(s1) + Sent(s2)]

\* the generator of trace_context around a block whose outcome is raw
trace_context(raw, client, ok1, ok2) ==
  LET s1 == IF raw.kind = "return" THEN send_trace(client, ok1) ELSE "none"
      tried == IF s1 = "raised" THEN Raise("TelemetryError") ELSE raw
      handled == tried.kind = "raise" /\ IsException(tried.val)
      s2 == IF handled THEN send_trace(client, ok2) ELSE "none"
  IN [seen |-> IF s2 = "raised" THEN Raise("TelemetryError") ELSE tried,
      sent |-> Sent(s1) + Sent(s2)]

Call(op, form, raw, t, client, ok1, ok2) ==
  [op |-> op, form |-> form, raw |-> raw, seen |-> t.seen,
   sinkDown |-> client /\ ~ok1 /\ ~ok2]

\* ------------------------------------------------------------------ stages
load_pdf_lenient(d, parseOk) ==
  IF ~d.exists THEN Return(0)
  ELSE IF parseOk THEN Return(d.version) ELSE Raise("PdfParseError")

\* body of load_pdf: the units carry the version of the document read
load_pdf_body(d, parseOk) ==
  IF ~d.exists THEN Raise("FileNotFoundError")
  ELSE IF parseOk THEN Return(d.version) ELSE Raise("PdfParseError")

chunks_of(v) == [i \in 1..ChunksPerDoc |-> [version |-> v, seq |-> i]]

\* Chroma.from_documents on a persist directory adds the chunks, each under
\* a fresh id (here: the run that added it), to whatever the directory holds
from_documents(idx, documents, build) ==
  idx \o [i \in 1..Len(documents) |->
            [version |-> documents[i].version, seq |-> documents[i].seq, build |-> build]]

after_stage_update_first(p, stage) ==
  IF p = "src"
  THEN CASE stage = "load" -> "split" [] stage = "split" -> "update"
         [] stage = "update" -> "create" [] stage = "create" -> "chain"
         [] OTHER -> "loop"
  ELSE CASE stage = "load" -> "split" [] stage = "split" -> "create"
         [] stage = "create" -> "chain" [] OTHER -> "loop"

\* the order of the stages in main
after_stage(p, stage) ==
  IF p = "src"
  THEN CASE stage = "load" -> "split" [] stage = "split" -> "create"
         [] stage = "create" -> "update" [] stage = "update" -> "chain"
         [] OTHER -> "loop"
  ELSE CASE stage = "load" -> "split" [] stage = "split" -> "create"
         [] stage = "create" -> "chain" [] OTHER -> "loop"

\* an exception leaving a stage: src/src/main.py catches it, prints
\* "Fatal error: .." and exits with status 1; src/main.py has no handler and
\* the interpreter ends with a traceback
fatal_pc(p) == IF p = "src" THEN "failed" ELSE "crashed"

fatal_out(p) == IF p = "src" THEN "Fatal error" ELSE "Traceback"

\* ---------------------------------------------------------------- initial
Init ==
  /\ doc \in {[exists |-> e, version |-> 1, mtime |-> MinMtime] : e \in BOOLEAN}
  /\ checkpoint \in {[exists |-> FALSE, text |-> <<>>], [exists |-> TRUE, text |-> Garbage]}
  /\ ckptWritable \in BOOLEAN
  /\ index = <<>>
  /\ indexExists = FALSE
  /\ prog = "none"
  /\ pc = "idle"
  /\ runs = 0
  /\ langfuse_client = FALSE
  /\ changed = FALSE
  /\ docs = 0
  /\ splits = <<>>
  /\ query_count = 0
  /\ stdin_line = <<>>
  /\ out = "none"
  /\ lastCall = NoCall
  /\ wrote = 0
  /\ docSame = TRUE
  /\ ckptAtStart = checkpoint
  /\ flushed = "never"
  /\ stdin_eof = FALSE
  /\ units = <<>>
  /\ chunks = <<>>
  /\ split_pc = "ready"

\* ------------------------------------------------------------- environment
\* the document is rewritten: new content, later modification time
modify_document ==
  /\ doc.version < MaxVersion
  /\ doc.mtime < MaxMtime
  /\ \E m \in (doc.mtime + 1)..MaxMtime :
       doc' = [exists |-> TRUE, version |-> doc.version + 1, mtime |-> m]
  /\ docSame' = FALSE
  /\ UNCHANGED <<checkpoint, fixedVars, index, indexExists, prog, pc, runs,
                 langfuse_client, changed, docs, splits, query_count,
                 stdin_line, out, lastCall, wrote, ckptAtStart, flushed,
                 stdin_eof>>

\* the document is moved away
delete_document ==
  /\ doc.exists
  /\ doc' = [doc EXCEPT !.exists = FALSE]
  /\ docSame' = FALSE
  /\ UNCHANGED <<checkpoint, fixedVars, index, indexExists, prog, pc, runs,
                 langfuse_client, changed, docs, splits, query_count,
                 stdin_line, out, lastCall, wrote, ckptAtStart, flushed,
                 stdin_eof>>

\* the document is moved back, content and modification time as they were
restore_document ==
  /\ ~doc.exists
  /\ doc' = [doc EXCEPT !.exists = TRUE]
  /\ docSame' = FALSE
  /\ UNCHANGED <<checkpoint, fixedVars, index, indexExists, prog, pc, runs,
                 langfuse_client, changed, docs, splits, query_count,
                 stdin_line, out, lastCall, wrote, ckptAtStart, flushed,
                 stdin_eof>>

\* ----------------------------------------------------- src/src/main.py main
\* a run starts: setup_langfuse, then has_pdf_changed and, when it reports a
\* change, the removal of the persist directory
main_start ==
  /\ pc \in Terminal
  /\ runs < MaxRuns
  /\ runs' = runs + 1
  /\ prog' = "src"
  /\ \E configured \in BOOLEAN : langfuse_client' = configured
  /\ changed' = has_pdf_changed(doc, checkpoint)
  /\ IF changed' /\ indexExists
     THEN index' = <<>> /\ indexExists' = FALSE
     ELSE UNCHANGED <<index, indexExists>>
  /\ pc' = "load"
  /\ docs' = 0
  /\ splits' = <<>>
  /\ query_count' = 0
  /\ stdin_line' = <<>>
  /\ out' = "none"
  /\ lastCall' = NoCall
  /\ wrote' = 0
  /\ docSame' = TRUE
  /\ ckptAtStart' = checkpoint
  /\ flushed' = "never"
  /\ stdin_eof' = FALSE
  /\ UNCHANGED <<doc, checkpoint, fixedVars>>

\* a run of src/main.py starts: no setup_langfuse, no change detection
root_main_start ==
  /\ pc \in Terminal
  /\ runs < MaxRuns
  /\ runs' = runs + 1
  /\ prog' = "root"
  /\ langfuse_client' = FALSE
  /\ changed' = FALSE
  /\ pc' = "load"
  /\ docs' = 0
  /\ splits' = <<>>
  /\ query_count' = 0
  /\ stdin_line' = <<>>
  /\ out' = "none"
  /\ lastCall' = NoCall
  /\ ckptAtStart' = checkpoint
  /\ flushed' = "never"
  /\ stdin_eof' = FALSE
  /\ UNCHANGED <<fileVars, wrote, docSame>>

\* flush_traces was called: nothing has reached the client since
flush_traces == "last"

\* `sent` records reach the client while the flush history is f
emit(f, sent) == IF f = "last" /\ sent > 0 THEN "overtaken" ELSE f

\* main's own trace_function wrapper when main ends with outcome raw
main_wrapper(raw, client, ok1, ok2) == trace_function(raw, client, ok1, ok2)

\* the handler of main: flush_traces, "Fatal error: ..", sys.exit(1); the
\* SystemExit then leaves main through its trace_function wrapper
main_fatal(client) ==
  emit(flush_traces, main_wrapper(Raise("SystemExit"), client, TRUE, TRUE).sent)

\* what a stage's caller does with the outcome it sees
Continue(stage, seenKind) ==
  IF seenKind = "return"
  THEN pc' = after_stage(prog, stage) /\ out' = out /\ flushed' = flushed
  ELSE /\ pc' = fatal_pc(prog) /\ out' = fatal_out(prog)
       /\ flushed' = IF prog = "src" THEN main_fatal(langfuse_client) ELSE flushed

load_pdf ==
  /\ pc = "load"
  /\ \E parseOk, ok1, ok2 \in BOOLEAN :
       LET raw == load_pdf_body(doc, parseOk)
           t == trace_function(raw, langfuse_client, ok1, ok2)
       IN /\ langfuse_client \/ (ok1 /\ ok2)   \* without a client nothing is sent
          /\ lastCall' = Call("load_pdf", "function", raw, t, langfuse_client, ok1, ok2)
          /\ docs' = IF t.seen.kind = "return" THEN t.seen.val ELSE docs
          /\ Continue("load", t.seen.kind)
  /\ UNCHANGED <<fileVars, prog, runs, langfuse_client, changed, splits,
                 query_count, stdin_line, wrote, docSame, ckptAtStart, stdin_eof>>

split_documents_stage ==
  /\ pc = "split"
  /\ \E splitOk, ok1, ok2 \in BOOLEAN :
       LET raw == IF splitOk THEN Return(chunks_of(docs)) ELSE Raise("TokenizerError")
           t == trace_function(raw, langfuse_client, ok1, ok2)
       IN /\ langfuse_client \/ (ok1 /\ ok2)   \* without a client nothing is sent
          /\ lastCall' = Call("split_documents", "function", raw, t, langfuse_client, ok1, ok2)
          /\ splits' = IF t.seen.kind = "return" THEN t.seen.val ELSE splits
          /\ Continue("split", t.seen.kind)
  /\ UNCHANGED <<fileVars, prog, runs, langfuse_client, changed, docs,
                 query_count, stdin_line, wrote, docSame, ckptAtStart, stdin_eof>>

create_vectorstore ==
  /\ pc = "create"
  /\ \E embedOk, dirMade, ok1, ok2 \in BOOLEAN :
       LET raw == IF embedOk THEN Return("vectorstore") ELSE Raise("EmbeddingError")
           t == trace_function(raw, langfuse_client, ok1, ok2)
       IN /\ langfuse_client \/ (ok1 /\ ok2)   \* without a client nothing is sent
          /\ lastCall' = Call("create_vectorstore", "function", raw, t, langfuse_client, ok1, ok2)
          /\ IF embedOk
             THEN index' = from_documents(index, splits, runs) /\ indexExists' = TRUE
             ELSE index' = index /\ indexExists' = (indexExists \/ dirMade)
          /\ Continue("create", t.seen.kind)
  /\ UNCHANGED <<doc, checkpoint, fixedVars, prog, runs, langfuse_client,
                 changed, docs, splits, query_count, stdin_line, wrote,
                 docSame, ckptAtStart, stdin_eof>>

update_pdf_checkpoint_stage ==
  /\ pc = "update"
  /\ checkpoint' = update_pdf_checkpoint(doc, checkpoint, ckptWritable)
  /\ wrote' = IF doc.exists /\ ckptWritable THEN doc.mtime ELSE wrote
  /\ Continue("update", update_pdf_checkpoint_call(doc, ckptWritable).kind)
  /\ UNCHANGED <<doc, fixedVars, index, indexExists, prog, runs,
                 langfuse_client, changed, docs, splits, query_count,
                 stdin_line, lastCall, docSame, ckptAtStart, stdin_eof>>

build_rag_chain ==
  /\ pc = "chain"
  /\ \E llmOk, ok1, ok2 \in BOOLEAN :
       LET raw == IF llmOk THEN Return("rag_chain") ELSE Raise("ChainError")
           t == trace_function(raw, langfuse_client, ok1, ok2)
       IN /\ langfuse_client \/ (ok1 /\ ok2)   \* without a client nothing is sent
          /\ lastCall' = Call("build_rag_chain", "function", raw, t, langfuse_client, ok1, ok2)
          /\ Continue("chain", t.seen.kind)
  /\ UNCHANGED <<fileVars, prog, runs, langfuse_client, changed, docs, splits,
                 query_count, stdin_line, wrote, docSame, ckptAtStart, stdin_eof>>

\* ------------------------------------------- interactive loop, src/src/main.py
main_loop_decision_case_sensitive(line) ==
  LET q == strip(line)
  IN IF q = <<>> THEN "empty" ELSE IF q = ExitWord THEN "exit" ELSE "query"

\* what the loop does with a line: user_question = input(..).strip(), then the
\* tests `not user_question` and `user_question.lower() == 'exit'`
main_loop_decision(line) ==
  LET q == strip(line)
  IN IF q = <<>> THEN "empty" ELSE IF lower(q) = ExitWord THEN "exit" ELSE "query"

\* src/main.py: the line as typed, only `user_question.lower() == 'exit'`
root_loop_decision(line) == IF lower(line) = ExitWord THEN "exit" ELSE "query"

main_loop_handler_outside_input(e) ==
  IF e = "EOFError" THEN [pc |-> "failed", out |-> "Fatal error"]
  ELSE IF IsException(e) THEN [pc |-> "loop", out |-> "Error"]
  ELSE [pc |-> "crashed", out |-> "Traceback"]

\* an exception raised inside an iteration, the call of input() included:
\* `except Exception` of the loop prints "Error: .." and the loop goes on;
\* what is no Exception passes this handler and the one of main
main_loop_handler(e) ==
  IF IsException(e) THEN [pc |-> "loop", out |-> "Error"]
  ELSE [pc |-> "crashed", out |-> "Traceback"]

\* input() raises EOFError at end of input; the loop's handler reports it.
\* On a pipe or file the end of input stays, on a terminal it need not.
main_loop_eof ==
  /\ prog = "src" /\ pc = "loop"
  /\ \E closed \in BOOLEAN : stdin_eof' = (stdin_eof \/ closed)
  /\ LET h == main_loop_handler("EOFError")
     IN /\ pc' = h.pc
        /\ out' = h.out
        /\ flushed' = IF h.pc = "failed" THEN main_fatal(langfuse_client) ELSE flushed
  /\ UNCHANGED <<fileVars, prog, runs, langfuse_client, changed, docs,
                 splits, query_count, stdin_line, lastCall, wrote, docSame,
                 ckptAtStart>>

main_loop_empty ==
  /\ prog = "src" /\ pc = "loop"
  /\ ~stdin_eof
  /\ \E line \in Inputs :
       /\ main_loop_decision(line) = "empty"
       /\ stdin_line' = line
  /\ out' = "Please enter a question."
  /\ UNCHANGED <<fileVars, prog, pc, runs, langfuse_client, changed, docs,
                 splits, query_count, lastCall, wrote, docSame, ckptAtStart, flushed,
                 stdin_eof>>

\* exit: flush_traces, "Goodbye!", break; main returns through its
\* trace_function wrapper and the process ends
main_loop_exit ==
  /\ prog = "src" /\ pc = "loop"
  /\ ~stdin_eof
  /\ \E line \in Inputs :
       /\ main_loop_decision(line) = "exit"
       /\ stdin_line' = line
  /\ out' = "Goodbye!"
  /\ \E ok1, ok2 \in BOOLEAN :
       LET raw == Return("None")
           t == main_wrapper(raw, langfuse_client, ok1, ok2)
       IN /\ langfuse_client \/ (ok1 /\ ok2)   \* without a client nothing is sent
          /\ lastCall' = Call("main", "function", raw, t, langfuse_client, ok1, ok2)
          /\ flushed' = emit(flush_traces, t.sent)
          /\ pc' = IF t.seen.kind = "return" THEN "exited" ELSE "crashed"
  /\ UNCHANGED <<fileVars, prog, runs, langfuse_client, changed, docs, splits,
                 query_count, wrote, docSame, ckptAtStart, stdin_eof>>

\* a question: counted, sent to rag_chain.invoke inside trace_context;
\* whatever leaves the block is caught by the loop and printed as "Error: .."
main_loop_query ==
  /\ prog = "src" /\ pc = "loop"
  /\ ~stdin_eof
  /\ query_count < MaxQueries
  /\ \E line \in Inputs :
       /\ main_loop_decision(line) = "query"
       /\ stdin_line' = line
  /\ query_count' = query_count + 1
  /\ \E invokeOk, ok1, ok2 \in BOOLEAN :
       LET raw == IF invokeOk THEN Return("answer") ELSE Raise("ServiceError")
           t == trace_context(raw, langfuse_client, ok1, ok2)
       IN /\ langfuse_client \/ (ok1 /\ ok2)   \* without a client nothing is sent
          /\ lastCall' = Call("query", "context", raw, t, langfuse_client, ok1, ok2)
          /\ out' = IF t.seen.kind = "return" THEN "Answer"
                    ELSE main_loop_handler(t.seen.val).out
          /\ pc' = IF t.seen.kind = "return" THEN "loop"
                   ELSE main_loop_handler(t.seen.val).pc
  /\ UNCHANGED <<fileVars, prog, runs, langfuse_client, changed, docs, splits,
                 wrote, docSame, ckptAtStart, flushed,
                 stdin_eof>>

\* ----------------------------------------------- interactive loop, src/main.py
\* input() raises EOFError and nothing catches it
root_loop_eof ==
  /\ prog = "root" /\ pc = "loop"
  /\ pc' = "crashed"
  /\ out' = "Traceback"
  /\ UNCHANGED <<fileVars, prog, runs, langfuse_client, changed, docs, splits,
                 query_count, stdin_line, lastCall, wrote, docSame, ckptAtStart, flushed,
                 stdin_eof>>

root_loop_exit ==
  /\ prog = "root" /\ pc = "loop"
  /\ ~stdin_eof
  /\ \E line \in Inputs :
       /\ root_loop_decision(line) = "exit"
       /\ stdin_line' = line
  /\ out' = "Exiting chatbot."
  /\ pc' = "exited"
  /\ UNCHANGED <<fileVars, prog, runs, langfuse_client, changed, docs, splits,
                 query_count, lastCall, wrote, docSame, ckptAtStart, flushed,
                 stdin_eof>>

\* any other line is sent to rag_chain.invoke; an exception ends the process
root_loop_query ==
  /\ prog = "root" /\ pc = "loop"
  /\ ~stdin_eof
  /\ query_count < MaxQueries
  /\ \E line \in Inputs :
       /\ root_loop_decision(line) = "query"
       /\ stdin_line' = line
  /\ query_count' = query_count + 1
  /\ \E invokeOk \in BOOLEAN :
       LET raw == IF invokeOk THEN Return("answer") ELSE Raise("ServiceError")
       IN /\ lastCall' = [op |-> "query", form |-> "plain", raw |-> raw, seen |-> raw,
                          sinkDown |-> FALSE]
          /\ out' = IF invokeOk THEN "Answer" ELSE "Traceback"
          /\ pc' = IF invokeOk THEN "loop" ELSE "crashed"
  /\ UNCHANGED <<fileVars, prog, runs, langfuse_client, changed, docs, splits,
                 wrote, docSame, ckptAtStart, flushed,
                 stdin_eof>>

\* ----------------------------------------------------------- specification
Next ==
  \/ modify_document
  \/ delete_document
  \/ restore_document
  \/ main_start
  \/ root_main_start
  \/ load_pdf
  \/ split_documents_stage
  \/ create_vectorstore
  \/ update_pdf_checkpoint_stage
  \/ build_rag_chain
  \/ main_loop_eof
  \/ main_loop_empty
  \/ main_loop_exit
  \/ main_loop_query
  \/ root_loop_eof
  \/ root_loop_exit
  \/ root_loop_query

Spec == Init /\ [][Next]_vars

\* ------------------------------------------------------------ chunker model
chunk_size == 500
chunk_overlap == 100
SecondUnitTokens == 501

Min(a, b) == IF a < b THEN a ELSE b

\* TokenTextSplitter.split_text on the token ids of one text: windows of
\* `size` tokens, each starting `size - overlap` tokens after the one before,
\* the last one ending with the text
RECURSIVE split_text_on_tokens(_, _, _, _)
split_text_on_tokens(ids, start, size, overlap) ==
  IF start >= Len(ids) THEN <<>>
  ELSE LET cur == Min(start + size, Len(ids))
       IN <<SubSeq(ids, start + 1, cur)>> \o
          (IF cur = Len(ids) THEN <<>>
           ELSE split_text_on_tokens(ids, start + (size - overlap), size, overlap))

RECURSIVE split_each(_, _, _)
split_each(us, size, overlap) ==
  IF us = <<>> THEN <<>>
  ELSE LET u == Head(us)
           texts == split_text_on_tokens(u.tokens, 0, size, overlap)
       IN [k \in 1..Len(texts) |-> [metadata |-> u.metadata, tokens |-> texts[k]]]
          \o split_each(Tail(us), size, overlap)

split_documents_no_overlap(us) == split_each(us, chunk_size, 0)

\* split_documents(docs, chunk_size=500, chunk_overlap=100)
split_documents(us) == split_each(us, chunk_size, chunk_overlap)

Unit(page, n) == [metadata |-> [source |-> "Ramayana.pdf", page |-> page], tokens |-> [i \in 1..n |-> i]]

InitSplit ==
  /\ doc = [exists |-> TRUE, version |-> 1, mtime |-> MinMtime]
  /\ checkpoint = [exists |-> FALSE, text |-> <<>>]
  /\ ckptWritable = TRUE
  /\ index = <<>>
  /\ indexExists = FALSE
  /\ prog = "none"
  /\ pc = "idle"
  /\ runs = 0
  /\ langfuse_client = FALSE
  /\ changed = FALSE
  /\ docs = 0
  /\ splits = <<>>
  /\ query_count = 0
  /\ stdin_line = <<>>
  /\ out = "none"
  /\ lastCall = NoCall
  /\ wrote = 0
  /\ docSame = TRUE
  /\ ckptAtStart = checkpoint
  /\ flushed = "never"
  /\ stdin_eof = FALSE
  /\ \E n \in 0..MaxTokens, m \in {0, 1, SecondUnitTokens} :
       units = <<Unit(0, n), Unit(1, m)>>
  /\ chunks = <<>>
  /\ split_pc = "ready"

split_call ==
  /\ split_pc = "ready"
  /\ chunks' = split_documents(units)
  /\ split_pc' = "done"
  /\ UNCHANGED <<units, pipelineVars>>

NextSplit == split_call

SpecSplit == InitSplit /\ [][NextSplit]_vars

\* ------------------------------------------------------------------ claims
InitOps == {"load_pdf", "split_documents", "create_vectorstore"}

\* a run of src/src/main.py starts in this step (has_pdf_changed is called)
SrcStartStep == pc \in Terminal /\ pc' = "load" /\ prog' = "src"

\* one of load, split, index build is called in this step
InitStageStep == pc \in {"load", "split", "create"} /\ pc' # pc

\* C1: the persisted index always holds chunks of exactly one version of the
\* document, all added by one build: a new build's chunks are never added to
\* the chunks of an earlier build.
C1_OneVersionOneBuild ==
  \A i, j \in 1..Len(index) :
    index[i].version = index[j].version /\ index[i].build = index[j].build

\* C2: has_pdf_changed returns true when the checkpoint file is missing, when
\* the document is missing, when the checkpoint text is no number, and when
\* the stored time differs from the document's; it returns false only when
\* the checkpoint exists, parses and equals the document's modification time;
\* it leaves the checkpoint file as it is.
C2_HasChangedContract ==
  [][SrcStartStep =>
       LET stored == float_parse(checkpoint.text)
       IN /\ (~checkpoint.exists => changed')
          /\ (~doc.exists => changed')
          /\ (checkpoint.exists /\ ~stored.ok => changed')
          /\ (checkpoint.exists /\ doc.exists /\ stored.ok /\ stored.val # doc.mtime => changed')
          /\ (~changed' => checkpoint.exists /\ doc.exists /\ stored.ok /\ stored.val = doc.mtime)
          /\ checkpoint' = checkpoint]_vars

\* C2 witness: a run found a parsable checkpoint that differs from the
\* modification time of the document and reported a change.
C2_Witness ==
  /\ prog = "src" /\ pc = "load" /\ changed
  /\ checkpoint.exists /\ doc.exists
  /\ float_parse(checkpoint.text).ok
  /\ float_parse(checkpoint.text).val # doc.mtime

\* C3: when update_pdf_checkpoint of the latest run recorded the document's
\* modification time, the text it wrote parses back to that time, and a next
\* run that finds the document with that same modification time gets false
\* from has_pdf_changed.
C3_UnchangedAfterUpdate ==
  [][/\ (wrote' # 0 =>
           /\ checkpoint'.exists
           /\ float_parse(checkpoint'.text).ok
           /\ float_parse(checkpoint'.text).val = wrote')
     /\ (SrcStartStep /\ wrote # 0 /\ doc.exists /\ doc.mtime = wrote => ~changed')]_vars

\* C3 witness: a second run started on a document whose modification time is
\* the one the first run recorded, and has_pdf_changed returned false.
C3_Witness == prog = "src" /\ pc = "load" /\ runs = 2 /\ ~changed /\ doc.exists

\* C4: when has_pdf_changed reports the document unchanged, loader, chunker
\* and index builder are not run again and the persisted index is after
\* initialization what it was before.
C4_UnchangedSkipsRebuild ==
  [][prog = "src" /\ ~changed /\ pc \in {"load", "split", "create"} =>
       docs' = docs /\ splits' = splits /\ index' = index]_vars

\* C5: the checkpoint file is written only after the index build of the run
\* has succeeded; a run in which load, split or index build fails leaves it
\* exactly as it was when the run started; and when such a failed run had
\* reported a change, the next run on the same document reports it again.
C5_CheckpointAfterBuild ==
  [][/\ (checkpoint' # checkpoint =>
           /\ prog = "src"
           /\ lastCall.op = "create_vectorstore"
           /\ lastCall.seen.kind = "return"
           /\ checkpoint'.exists)
     /\ (prog' = "src" /\ pc' = "failed" /\ lastCall'.op \in InitOps =>
           checkpoint' = ckptAtStart')
     /\ (SrcStartStep /\ prog = "src" /\ pc = "failed" /\ lastCall.op \in InitOps
           /\ changed /\ docSame => changed')]_vars

\* C5 witness: a rebuild failed in the index build while an older, valid
\* checkpoint was on disk, and the checkpoint is still the older one.
C5_Witness ==
  /\ prog = "src" /\ pc = "failed" /\ changed
  /\ lastCall.op = "create_vectorstore"
  /\ checkpoint.exists /\ float_parse(checkpoint.text).ok
  /\ doc.exists /\ float_parse(checkpoint.text).val # doc.mtime

\* C6: whatever the telemetry sink does, and so when it fails on every send,
\* the caller of a traced function or traced block sees the outcome of the
\* wrapped operation itself: the same returned value or the same error, and
\* never an error of the sink.
C6_TracingTransparent ==
  lastCall.form \in {"function", "context"} =>
    /\ lastCall.seen.kind = lastCall.raw.kind
    /\ lastCall.seen.val = lastCall.raw.val
    /\ ~(lastCall.seen.kind = "raise" /\ lastCall.seen.val = "TelemetryError")

\* C6 witness: a traced block raised while the sink refused every record.
C6_Witness ==
  /\ lastCall.form = "context" /\ lastCall.sinkDown
  /\ lastCall.raw.kind = "raise"

\* C7: a failed retrieval or generation call for a question is reported as
\* "Error: .." and the loop prompts again.
C7_QueryFailureContinues ==
  [][pc = "loop" /\ query_count' = query_count + 1 /\ lastCall'.raw.kind = "raise" =>
       out' = "Error" /\ pc' = "loop"]_vars

\* C8: a failure of load (FileNotFoundError when the document is missing, or
\* a parsing failure), of split or of the index build leaves the stage as the
\* same error and ends the run with a fatal error; the interactive loop is
\* not entered and no question is answered.
C8_SetupFailureFatal ==
  [][/\ (InitStageStep /\ pc = "load" /\ ~doc.exists =>
           lastCall'.raw.kind = "raise" /\ lastCall'.raw.val = "FileNotFoundError")
     /\ (InitStageStep /\ lastCall'.raw.kind = "raise" =>
           /\ lastCall'.seen.kind = "raise"
           /\ lastCall'.seen.val = lastCall'.raw.val
           /\ pc' \in {"failed", "crashed"}
           /\ out' \in {"Fatal error", "Traceback"})
     /\ (pc' \in {"failed", "crashed"} /\ lastCall'.op \in InitOps =>
           query_count' = 0 /\ out' \in {"Fatal error", "Traceback"})]_vars

\* C8 witness: a run ended fatally because the document was missing at load.
C8_Witness ==
  /\ pc = "failed" /\ lastCall.op = "load_pdf"
  /\ lastCall.raw.kind = "raise" /\ lastCall.raw.val = "FileNotFoundError"
  /\ out = "Fatal error" /\ query_count = 0

\* the tokens two chunks have in common
Shared(a, b) == {a[i] : i \in 1..Len(a)} \cap {b[i] : i \in 1..Len(b)}

\* C9: every chunk has at most chunk_size tokens and carries the metadata of
\* its unit; consecutive chunks of one unit start chunk_size - chunk_overlap
\* tokens apart and share exactly chunk_overlap tokens, the end of the first
\* being the beginning of the second.
C9_ChunkWindows ==
  split_pc = "done" =>
    /\ \A k \in 1..Len(chunks) :
         /\ Len(chunks[k].tokens) <= chunk_size
         /\ Len(chunks[k].tokens) >= 1
         /\ \E u \in 1..Len(units) :
              /\ chunks[k].metadata = units[u].metadata
              /\ \A i \in 1..Len(chunks[k].tokens) :
                   chunks[k].tokens[i] = units[u].tokens[chunks[k].tokens[1] + i - 1]
    /\ \A k \in 1..(Len(chunks) - 1) :
         chunks[k].metadata = chunks[k + 1].metadata =>
           LET a == chunks[k].tokens
               b == chunks[k + 1].tokens
           IN /\ b[1] = a[1] + (chunk_size - chunk_overlap)
              /\ Len(a) = chunk_size
              /\ Cardinality(Shared(a, b)) = chunk_overlap
              /\ SubSeq(a, Len(a) - chunk_overlap + 1, Len(a)) = SubSeq(b, 1, chunk_overlap)

\* C9 witness: a unit was split into three chunks, the last one shorter than
\* chunk_size, followed by the chunks of the next unit.
C9_Witness ==
  /\ split_pc = "done"
  /\ Len(chunks) >= 5
  /\ chunks[1].metadata = chunks[3].metadata
  /\ Len(chunks[3].tokens) < chunk_size
  /\ chunks[4].metadata # chunks[3].metadata

IsExitAnyCase(s) ==
  /\ Len(s) = 4
  /\ s[1] \in {"e", "E"} /\ s[2] \in {"x", "X"} /\ s[3] \in {"i", "I"} /\ s[4] \in {"t", "T"}

IsBlank(s) == \A i \in 1..Len(s) : s[i] = " "

\* a step of the interactive loop that read a line (not end of input)
ReadStep ==
  /\ pc = "loop" /\ doc' = doc
  /\ ~(query_count' = query_count /\ out' \in {"Error", "Traceback"})

\* C10 as stated: the loop exits on the line exit in any letter case; every
\* other line is sent to the answer pipeline, answered and followed by a new
\* prompt; nothing is sent after exit was read.
C10_ExitOnlyOnExit ==
  [][/\ (ReadStep =>
           IF IsExitAnyCase(stdin_line')
           THEN pc' = "exited" /\ query_count' = query_count
           ELSE /\ query_count' = query_count + 1
                /\ (lastCall'.raw.kind = "return" => out' = "Answer" /\ pc' = "loop"))
     /\ (pc = "exited" /\ pc' = "exited" => query_count' = query_count)]_vars

\* C10 amended: src/src/main.py strips the line first: it exits when the
\* stripped line is exit in any letter case, prompts again without calling the
\* pipeline when the stripped line is empty, and sends every other line to the
\* pipeline and prompts again; src/main.py exits when the line as typed is
\* exit in any letter case and sends every other line, the empty one too, to
\* the pipeline, prompting again when the call returns; nothing is sent after
\* exit was read.
C10_ExitOnStrippedExit ==
  [][/\ (ReadStep /\ prog = "src" =>
           IF IsExitAnyCase(strip(stdin_line'))
           THEN pc' = "exited" /\ query_count' = query_count /\ out' = "Goodbye!"
           ELSE IF IsBlank(stdin_line')
           THEN pc' = "loop" /\ query_count' = query_count /\ out' = "Please enter a question."
           ELSE /\ query_count' = query_count + 1
                /\ lastCall'.op = "query"
                /\ pc' = "loop"
                /\ (lastCall'.raw.kind = "return" => out' = "Answer"))
     /\ (ReadStep /\ prog = "root" =>
           IF IsExitAnyCase(stdin_line')
           THEN pc' = "exited" /\ query_count' = query_count
           ELSE /\ query_count' = query_count + 1
                /\ lastCall'.op = "query"
                /\ (lastCall'.raw.kind = "return" => out' = "Answer" /\ pc' = "loop"))
     /\ (pc = "exited" /\ pc' = "exited" => query_count' = query_count)]_vars

\* C10 witness: src/src/main.py read " exit " and ended without a question
\* having been sent.
C10_Witness ==
  /\ prog = "src" /\ pc = "exited" /\ query_count = 0
  /\ stdin_line = <<" ", "e", "x", "i", "t", " ">>

\* C11: update_pdf_checkpoint is best-effort: when the document exists and the
\* checkpoint file can be written, the checkpoint afterwards holds the
\* document's current modification time; when the document is missing or the
\* file cannot be written, nothing is raised and nothing is printed as fatal,
\* the checkpoint stays as it was, and main goes on to build_rag_chain.
C11_CheckpointBestEffort ==
  [][pc = "update" /\ pc' # pc =>
       /\ pc' = "chain"
       /\ out' = out
       /\ (doc.exists /\ ckptWritable =>
             /\ checkpoint'.exists
             /\ float_parse(checkpoint'.text).ok
             /\ float_parse(checkpoint'.text).val = doc.mtime)
       /\ (~doc.exists \/ ~ckptWritable => checkpoint' = checkpoint)]_vars

\* C11 witness: the index was built, the checkpoint could not be written, and
\* the run reached the interactive loop with the checkpoint it started with.
C11_Witness ==
  /\ prog = "src" /\ pc = "loop" /\ wrote = 0
  /\ lastCall.op = "build_rag_chain" /\ lastCall.seen.kind = "return"
  /\ checkpoint = ckptAtStart

\* C12: on every path by which main of src/src/main.py ends, flush_traces is
\* called, and no trace record reaches the telemetry client after its last
\* call, the record of main's own trace_function wrapper included.
C12_NothingAfterFlush ==
  prog = "src" /\ pc \in {"exited", "failed"} => flushed = "last"

\* C13: whatever modifications of the document are interleaved with the runs
\* of src/src/main.py, when has_pdf_changed returns false at the start of a
\* run, the persisted index exists and every chunk in it was built from the
\* version of the document that is on disk.
C13_UnchangedMeansCurrent ==
  [][SrcStartStep /\ ~changed' =>
       /\ indexExists
       /\ \A i \in 1..Len(index) : index[i].version = doc.version]_vars

\* C14: the interactive loop of src/src/main.py, once entered, is left only by
\* a line whose stripped text is exit in any letter case. An exception raised
\* inside an iteration, by the answer pipeline or by reading the input at end
\* of input, is reported as "Error: .." and the loop goes on, so with standard
\* input exhausted the loop is never left. A blank line prompts again, calls
\* no pipeline and leaves the query counter as it is.
C14_LoopEndsOnlyOnExit ==
  [][prog = "src" /\ pc = "loop" =>
       /\ (pc' # "loop" =>
             pc' = "exited" /\ ~stdin_eof /\ IsExitAnyCase(strip(stdin_line')))
       /\ (stdin_eof \/ stdin_eof' =>
             /\ pc' = "loop"
             /\ query_count' = query_count
             /\ stdin_line' = stdin_line
             /\ (out' # out \/ stdin_eof' # stdin_eof => out' = "Error"))
       /\ (query_count' = query_count + 1 /\ lastCall'.raw.kind = "raise" =>
             pc' = "loop" /\ out' = "Error")
       /\ (ReadStep /\ IsBlank(stdin_line') =>
             /\ pc' = "loop"
             /\ out' = "Please enter a question."
             /\ query_count' = query_count
             /\ lastCall' = lastCall)]_vars

\* C14 witness: after a blank line standard input ran out without an exit
\* line; the end of input was reported, no question was counted and the loop
\* is still running.
C14_Witness ==
  /\ prog = "src" /\ pc = "loop" /\ stdin_eof
  /\ out = "Error" /\ query_count = 0
  /\ stdin_line = <<" ">>
  /\ lastCall.op = "build_rag_chain"

\* C15: when the document does not exist at the start of a run of
\* src/src/main.py, has_pdf_changed returns true and an existing persist
\* directory is deleted, the checkpoint being left alone; load_pdf, called
\* after that on the still missing document, raises FileNotFoundError and the
\* run ends with "Fatal error"; at that end the index is gone and the
\* checkpoint file is the one the run started with.
C15_MissingDocumentDropsIndex ==
  [][/\ (SrcStartStep /\ ~doc.exists =>
           /\ changed'
           /\ ~indexExists' /\ index' = <<>>
           /\ checkpoint' = checkpoint
           /\ lastCall' = NoCall)
     /\ (prog = "src" /\ pc = "load" /\ pc' # pc /\ ~doc.exists =>
           /\ lastCall'.op = "load_pdf"
           /\ lastCall'.raw.kind = "raise" /\ lastCall'.raw.val = "FileNotFoundError"
           /\ pc' = "failed" /\ out' = "Fatal error"
           /\ indexExists' = indexExists /\ index' = index
           /\ checkpoint' = checkpoint)
     /\ (prog' = "src" /\ pc' = "failed" /\ lastCall'.op = "load_pdf"
           /\ docSame' /\ ~doc'.exists =>
           /\ changed'
           /\ ~indexExists' /\ index' = <<>>
           /\ checkpoint' = ckptAtStart')]_vars

\* C15 witness: a first run built the index and wrote the checkpoint, the
\* document was moved away, and the second run deleted the index and ended
\* at load_pdf with the checkpoint of the first run still on disk.
C15_Witness ==
  /\ prog = "src" /\ pc = "failed" /\ runs = 2
  /\ lastCall.op = "load_pdf" /\ docSame /\ ~doc.exists
  /\ ~indexExists
  /\ checkpoint.exists /\ float_parse(checkpoint.text).ok
  /\ checkpoint = ckptAtStart

====
